---- MODULE Spec2Model ----
(***************************************************************************)
(* Model of the Uniswap-V3 Swap log decoder and record store of rust_task: *)
(*   src/src/log_processing.rs  parse_decoded_log, process_log, to_hex     *)
(*   src/src/main.rs            parse_decoded_log, process_log,            *)
(*                              fetch_eth_logs                             *)
(*   src/src/data_store.rs      store_decoded_data                         *)
(*                                                                         *)
(* Fixed-width integers are kept at their real width.  A U256 is a         *)
(* sequence of 16 limbs of 16 bits, least significant limb first; a u128   *)
(* or i128 bit pattern is a sequence of 8 such limbs.                      *)
(***************************************************************************)
EXTENDS Integers, Sequences, FiniteSets, TLC

VARIABLES
    \* ---- amount conversion (parse_decoded_log, "amount0" | "amount1" arm)
    v,                \* the i128 the word encodes, as its 128-bit pattern
    value,            \* the U256 carried by Token::Int
    overflow_checks,  \* build profile: TRUE = debug (checked arithmetic)
    converted,        \* outcome of the conversion
    \* ---- decoder (process_log / parse_decoded_log, both files)
    event_map,        \* the signature table: the set of events it holds,
                      \* keyed by keccak256(abi_signature)
    log,              \* the raw log entry handed to process_log
    result,           \* what process_log did with it
    \* ---- stream loop (main.rs fetch_eth_logs)
    logs_stream,      \* the logs the transport has still to deliver
    loop_pc,          \* "idle", "watching", "returned" or "panicked"
    stderr,           \* the lines written by eprintln!
    handled,          \* history: per consumed log, the log and its outcome
    \* ---- record store (data_store.rs store_decoded_data)
    root_found,       \* utils::root_dir() finds a .git directory
    data_dir,         \* <root>/data exists
    today,            \* the current UTC day
    files,            \* per shard (address, day): existence and content
    callers,          \* the threads that call store_decoded_data
    pc,               \* per caller: its position in store_decoded_data
    call,             \* per caller: the locals of its call
    ret,              \* history: per caller, how its last call returned
    stored,           \* history: the calls that returned Ok, in order
    ncalls            \* history: the number of calls made

numVars == <<v, value, overflow_checks, converted>>
decVars == <<event_map, log, result>>
loopVars == <<logs_stream, loop_pc, stderr, handled>>
storeVars == <<root_found, data_dir, today, files, callers, pc, call, ret, stored, ncalls>>

vars == <<v, value, overflow_checks, converted, event_map, log, result,
          logs_stream, loop_pc, stderr, handled,
          root_found, data_dir, today, files, callers, pc, call, ret, stored, ncalls>>

(***************************************************************************)
(* Limb arithmetic                                                         *)
(***************************************************************************)
LimbBase == 2^16
LimbMax  == LimbBase - 1
LimbTop  == LimbBase \div 2          \* the limb 0x8000: only the sign bit set
U256Limbs == 256 \div 16
U128Limbs == 128 \div 16

Fill(n, x) == [i \in 1..n |-> x]

\* U256::max_value()
U256Max == Fill(U256Limbs, LimbMax)

\* U256::one()
U256One == [i \in 1..U256Limbs |-> IF i = 1 THEN 1 ELSE 0]

\* i128::MAX and i128::MIN as 128-bit patterns
I128Max == [i \in 1..U128Limbs |-> IF i = U128Limbs THEN LimbTop - 1 ELSE LimbMax]
I128Min == [i \in 1..U128Limbs |-> IF i = U128Limbs THEN LimbTop ELSE 0]

\* U256::from(x as u128): zero extension of a 128-bit pattern
U256From(x) == x \o Fill(U256Limbs - U128Limbs, 0)

\* U256::low_u128: the low 128 bits
low_u128(a) == SubSeq(a, 1, U128Limbs)

RECURSIVE GtFrom(_, _, _)
GtFrom(a, b, i) ==
    IF i = 0 THEN FALSE
    ELSE IF a[i] > b[i] THEN TRUE
    ELSE IF a[i] < b[i] THEN FALSE
    ELSE GtFrom(a, b, i - 1)

\* U256 PartialOrd: a > b
U256Gt(a, b) == GtFrom(a, b, Len(a))

RECURSIVE SubFrom(_, _, _, _)
SubFrom(a, b, i, borrow) ==
    IF i > Len(a) THEN <<>>
    ELSE LET d == a[i] - b[i] - borrow
         IN  <<(d + LimbBase) % LimbBase>>
                 \o SubFrom(a, b, i + 1, IF d < 0 THEN 1 ELSE 0)

\* U256 Sub: a - b, which panics on underflow in every build profile
U256Sub(a, b) == [overflow |-> U256Gt(b, a), limbs |-> SubFrom(a, b, 1, 0)]

RECURSIVE AddFrom(_, _, _, _)
AddFrom(a, b, i, carry) ==
    IF i > Len(a) THEN <<>>
    ELSE LET s == a[i] + b[i] + carry
         IN  <<s % LimbBase>> \o AddFrom(a, b, i + 1, s \div LimbBase)

RECURSIVE CarryOut(_, _, _, _)
CarryOut(a, b, i, carry) ==
    IF i > Len(a) THEN carry
    ELSE CarryOut(a, b, i + 1, (a[i] + b[i] + carry) \div LimbBase)

\* U256 Add: a + b, which panics on overflow in every build profile
U256Add(a, b) == [overflow |-> CarryOut(a, b, 1, 0) = 1, limbs |-> AddFrom(a, b, 1, 0)]

\* Bitwise complement of a pattern
Complement(x) == [i \in 1..Len(x) |-> LimbMax - x[i]]

\* The wrapped result of -(x) on an i128 pattern: (~x + 1) mod 2^128
WrappingNeg(x) ==
    AddFrom(Complement(x), [i \in 1..Len(x) |-> IF i = 1 THEN 1 ELSE 0], 1, 0)

\* Unary minus on i128: -(i128::MIN) overflows; with overflow checks the
\* program panics, without them the result wraps to i128::MIN.
NegI128(x, checks) ==
    IF x = I128Min
    THEN [panicked |-> checks, overflowed |-> TRUE, bits |-> WrappingNeg(x)]
    ELSE [panicked |-> FALSE, overflowed |-> FALSE, bits |-> WrappingNeg(x)]

\* The i128 produced for a Token::Int(value) named amount0 or amount1.
\* "x as i128" on a u128 keeps the bit pattern.
converted_value(val, checks) ==
    IF U256Gt(val, U256From(I128Max))
    THEN LET diff == U256Sub(U256Max, val)
             sum  == U256Add(diff.limbs, U256One)
             neg_value == low_u128(sum.limbs)
             neg  == NegI128(neg_value, checks)
         IN  [panicked   |-> diff.overflow \/ sum.overflow \/ neg.panicked,
              overflowed |-> diff.overflow \/ sum.overflow \/ neg.overflowed,
              bits       |-> neg.bits]
    ELSE [panicked |-> FALSE, overflowed |-> FALSE, bits |-> low_u128(val)]

\* ABI encoding of a signed value as an int256 word: sign extension
SignExtend(x) ==
    x \o Fill(U256Limbs - Len(x), IF x[Len(x)] >= LimbTop THEN LimbMax ELSE 0)

(***************************************************************************)
(* Inputs of the amount conversion                                         *)
(***************************************************************************)
TopLimbs == {0, 1, LimbTop - 1, LimbTop, LimbTop + 1, LimbMax}
MidLimbs == {0, 4660, LimbMax}
LowLimbs == {0, 1, LimbTop, LimbMax}

\* 128-bit patterns around the boundaries: 0, 1, -1, i128::MAX, i128::MIN, ...
I128Inputs ==
    { [i \in 1..U128Limbs |-> IF i = U128Limbs THEN t ELSE IF i = 1 THEN l ELSE m] :
        t \in TopLimbs, m \in MidLimbs, l \in LowLimbs }

Pending == [kind |-> "pending"]
None == [kind |-> "None"]

\* The contract main.rs watches, and the callers and days of the store
Address == "0x88e6A0c2dDD26FEEb64F039a2c41296FcB3f5640"
Addresses == {Address, "0x8ad599c3A0ff1De082011EFDDc58f1908eb6e6D8"}
Procs == {1, 2}
MaxDay == 2
Days == 1..MaxDay
Shards == Addresses \X Days

Absent == [exists |-> FALSE, content |-> <<>>]
NoCall == [shard |-> <<Address, 1>>, data |-> 0, before |-> <<>>]
NoRet == [status |-> "none"]

LoopIdle ==
    /\ logs_stream = <<>>
    /\ loop_pc = "idle"
    /\ stderr = <<>>
    /\ handled = <<>>

StoreIdle ==
    /\ root_found = TRUE
    /\ data_dir = FALSE
    /\ today = 1
    /\ files = [s \in Shards |-> Absent]
    /\ callers = {}
    /\ pc = [p \in Procs |-> "idle"]
    /\ call = [p \in Procs |-> NoCall]
    /\ ret = [p \in Procs |-> NoRet]
    /\ stored = <<>>
    /\ ncalls = 0

DecIdle ==
    /\ event_map = {}
    /\ log = None
    /\ result = Pending

InitNum ==
    /\ v \in I128Inputs
    /\ value = SignExtend(v)
    /\ overflow_checks \in BOOLEAN
    /\ converted = Pending
    /\ DecIdle
    /\ LoopIdle
    /\ StoreIdle

\* One run of the "amount0" | "amount1" arm on Token::Int(value)
ConvertAmount ==
    /\ converted = Pending
    /\ LET r == converted_value(value, overflow_checks)
       IN  converted' = IF r.panicked
                        THEN [kind |-> "panic"]
                        ELSE [kind |-> "ok", bits |-> r.bits, overflowed |-> r.overflowed]
    /\ UNCHANGED <<v, value, overflow_checks>>
    /\ UNCHANGED <<decVars, loopVars, storeVars>>

NextNum == ConvertAmount

SpecNum == InitNum /\ [][NextNum]_vars

\* C1: for every 128-bit signed v, converting the sign-extended 256-bit
\* word of v yields exactly v, with no arithmetic overflow and no abort.
C1_RoundTrip ==
    converted # Pending =>
        /\ converted.kind = "ok"
        /\ converted.bits = v
        /\ ~converted.overflowed

\* The round trip on every value other than i128::MIN
RoundTripExceptMin ==
    (converted # Pending /\ v # I128Min) =>
        /\ converted.kind = "ok"
        /\ converted.bits = v
        /\ ~converted.overflowed

(***************************************************************************)
(* Bytes, hashes and their renderings                                      *)
(***************************************************************************)
HexDigits == <<"0", "1", "2", "3", "4", "5", "6", "7",
               "8", "9", "a", "b", "c", "d", "e", "f">>

\* hex::encode: two lowercase digits per byte
RECURSIVE hex_encode(_)
hex_encode(bytes) ==
    IF bytes = <<>> THEN <<>>
    ELSE <<HexDigits[(Head(bytes) \div 16) + 1], HexDigits[(Head(bytes) % 16) + 1]>>
             \o hex_encode(Tail(bytes))

\* log_processing.rs to_hex: format!("0x{}", hex::encode(slice))
to_hex(slice) == <<"0", "x">> \o hex_encode(slice)

\* The character U+2026 (horizontal ellipsis)
Ellipsis == "U+2026"

\* H256's Display, used by main.rs through to_string(): the first two and
\* the last two bytes around an ellipsis
h256_to_string(h) ==
    <<"0", "x">> \o hex_encode(SubSeq(h, 1, 2)) \o <<Ellipsis>>
                 \o hex_encode(SubSeq(h, Len(h) - 1, Len(h)))

\* The log of tests::test_process_log
TestSigTopic ==
    <<196, 32, 121, 249, 74, 99, 80, 215, 230, 35, 95, 41, 23, 73, 36, 249,
      40, 204, 42, 200, 24, 235, 100, 254, 216, 0, 78, 17, 95, 188, 202, 103>>
TestSenderTopic ==
    <<0, 0, 0, 0, 0, 0, 0, 0, 0, 0, 0, 0, 215, 243, 251, 232, 199, 42, 150, 26,
      85, 21, 32, 62, 173, 165, 151, 80, 67, 127, 167, 98>>
TestRecipientTopic ==
    <<0, 0, 0, 0, 0, 0, 0, 0, 0, 0, 0, 0, 28, 9, 161, 0, 71, 252, 201, 68,
      239, 222, 146, 38, 226, 89, 237, 223, 222, 44, 28, 240>>
TestTransactionHash ==
    <<19, 248, 76, 86, 40, 94, 103, 247, 5, 188, 166, 203, 134, 86, 16, 222,
      218, 73, 39, 82, 192, 250, 206, 101, 30, 11, 60, 183, 137, 53, 0, 243>>
TestData ==
    << <<57991, 37578, 13, 0, 0, 0, 0, 0, 0, 0, 0, 0, 0, 0, 0, 0>>,
       <<13471, 8292, 1251, 65133, 65533, 65535, 65535, 65535,
         65535, 65535, 65535, 65535, 65535, 65535, 65535, 65535>>,
       <<46322, 5266, 31658, 50842, 54863, 51322, 25200, 0, 0, 0, 0, 0, 0, 0, 0, 0>>,
       <<10073, 28195, 39296, 31861, 1, 0, 0, 0, 0, 0, 0, 0, 0, 0, 0, 0>>,
       <<6094, 3, 0, 0, 0, 0, 0, 0, 0, 0, 0, 0, 0, 0, 0, 0>> >>

(***************************************************************************)
(* Event schemas and the signature table                                   *)
(***************************************************************************)
Param(n, t, ix) == [name |-> n, kind |-> t, indexed |-> ix]

\* The pool's Swap event (UniswapV3Pool), the event the test decodes
SwapV3 ==
    [name |-> "Swap",
     inputs |-> << Param("sender", "address", TRUE),
                   Param("recipient", "address", TRUE),
                   Param("amount0", "int256", FALSE),
                   Param("amount1", "int256", FALSE),
                   Param("sqrtPriceX96", "uint160", FALSE),
                   Param("liquidity", "uint128", FALSE),
                   Param("tick", "int24", FALSE) >>]

\* A Swap event with other parameter names (UniswapV2Pair)
SwapV2 ==
    [name |-> "Swap",
     inputs |-> << Param("sender", "address", TRUE),
                   Param("amount0In", "uint256", FALSE),
                   Param("amount1In", "uint256", FALSE),
                   Param("amount0Out", "uint256", FALSE),
                   Param("amount1Out", "uint256", FALSE),
                   Param("to", "address", TRUE) >>]

\* A Swap overload with the decoder's names but unsigned amounts
SwapUnsigned ==
    [name |-> "Swap",
     inputs |-> << Param("sender", "address", TRUE),
                   Param("recipient", "address", TRUE),
                   Param("amount0", "uint256", FALSE),
                   Param("amount1", "uint256", FALSE),
                   Param("sqrtPriceX96", "uint160", FALSE),
                   Param("liquidity", "uint128", FALSE),
                   Param("tick", "int24", FALSE) >>]

\* A Swap overload with one indexed parameter
SwapOneIndexed ==
    [name |-> "Swap",
     inputs |-> << Param("sender", "address", TRUE),
                   Param("amount0", "int256", FALSE),
                   Param("amount1", "int256", FALSE) >>]

\* An event with another name, one parameter indexed
Mint ==
    [name |-> "Mint",
     inputs |-> << Param("sender", "address", FALSE),
                   Param("owner", "address", TRUE),
                   Param("amount", "uint128", FALSE) >>]

Schemas == {SwapV3, SwapV2, SwapUnsigned, SwapOneIndexed, Mint}

\* keccak256(event.abi_signature()): one 32-byte hash per signature.  The
\* hash of the V3 Swap signature is the topic of the test log; the others
\* are distinct stand-ins.
SigHash(event) ==
    CASE event = SwapV3 -> TestSigTopic
      [] event = SwapV2 -> [i \in 1..32 |-> 215]
      [] event = SwapUnsigned -> [i \in 1..32 |-> 162]
      [] event = SwapOneIndexed -> [i \in 1..32 |-> 17]
      [] event = Mint -> [i \in 1..32 |-> 122]

\* A topic 0 that is the hash of no event of any table
UnknownSigTopic == [i \in 1..32 |-> 221]

(***************************************************************************)
(* ethabi's Event::parse_log, as process_log calls it                      *)
(***************************************************************************)
\* The Token variant ethabi builds for a parameter type
TokenKind(t) ==
    CASE t = "address" -> "Address"
      [] t \in {"int256", "int24"} -> "Int"
      [] t \in {"uint256", "uint160", "uint128"} -> "Uint"

\* Event::indexed_params(flag)
indexed_params(event, flag) == SelectSeq(event.inputs, LAMBDA p : p.indexed = flag)

\* The rank of input j among the inputs with the same indexed flag
Position(event, j) ==
    Cardinality({k \in 1..j : event.inputs[k].indexed = event.inputs[j].indexed})

\* Event::parse_log(raw_log): an error unless topic 0 is the event's
\* signature, there is exactly one further topic per indexed parameter and
\* the data holds a 32-byte word for every other parameter; then one
\* LogParam per input, in declaration order.
parse_log(event, raw_log) ==
    LET topic_params == indexed_params(event, TRUE)
        data_params  == indexed_params(event, FALSE)
    IN  IF Len(raw_log.topics) = 0 \/ raw_log.topics[1] # SigHash(event)
        THEN [kind |-> "Err"]
        ELSE IF Len(raw_log.topics) - 1 # Len(topic_params)
        THEN [kind |-> "Err"]
        ELSE IF Len(raw_log.data) < Len(data_params)
        THEN [kind |-> "Err"]
        ELSE [kind |-> "Ok",
              params |-> [j \in 1..Len(event.inputs) |->
                  [name  |-> event.inputs[j].name,
                   value |-> [kind |-> TokenKind(event.inputs[j].kind),
                              word |-> IF event.inputs[j].indexed
                                       THEN raw_log.topics[1 + Position(event, j)]
                                       ELSE raw_log.data[Position(event, j)]]]]]

(***************************************************************************)
(* parse_decoded_log                                                       *)
(***************************************************************************)
\* U256::low_u64 and the low 32 bits kept by "as i32"
low_u64(a) == SubSeq(a, 1, 64 \div 16)

\* A narrowing that goes through 16 bits: "as i16 as i32"
as_i32_via_i16(a) == <<a[1], IF a[1] >= LimbTop THEN LimbMax ELSE 0>>
as_i32(a) == SubSeq(a, 1, 32 \div 16)

\* let mut amount0 = 0; ... let mut tick = 0; with no field assigned yet
ZeroFields ==
    [panicked |-> FALSE, assigned |-> {},
     amount0 |-> Fill(U128Limbs, 0), amount1 |-> Fill(U128Limbs, 0),
     sqrtPriceX96 |-> Fill(U128Limbs, 0), liquidity |-> Fill(U128Limbs, 0),
     tick |-> Fill(32 \div 16, 0)]

\* One iteration of "for param in &decoded.params": the match on the name
\* and the "if let" on the token variant
match_param(acc, param, checks) ==
    IF acc.panicked THEN acc
    ELSE IF param.name \in {"amount0", "amount1"}
    THEN IF param.value.kind = "Int"
         THEN LET c == converted_value(param.value.word, checks)
              IN  IF c.panicked
                  THEN [acc EXCEPT !.panicked = TRUE]
                  ELSE [acc EXCEPT ![param.name] = c.bits,
                                   !.assigned = @ \cup {param.name}]
         ELSE acc
    ELSE IF param.name = "sqrtPriceX96"
    THEN IF param.value.kind = "Uint"
         THEN [acc EXCEPT !.sqrtPriceX96 = low_u128(param.value.word),
                          !.assigned = @ \cup {"sqrtPriceX96"}]
         ELSE acc
    ELSE IF param.name = "liquidity"
    THEN IF param.value.kind = "Uint"
         THEN [acc EXCEPT !.liquidity = low_u128(param.value.word),
                          !.assigned = @ \cup {"liquidity"}]
         ELSE acc
    ELSE IF param.name = "tick"
    THEN IF param.value.kind = "Int"
         THEN [acc EXCEPT !.tick = as_i32(low_u64(param.value.word)),
                          !.assigned = @ \cup {"tick"}]
         ELSE acc
    ELSE acc

\* The whole loop over decoded.params, from parameter i on
RECURSIVE for_params(_, _, _, _)
for_params(params, i, acc, checks) ==
    IF i > Len(params) THEN acc
    ELSE for_params(params, i + 1, match_param(acc, params[i], checks), checks)

\* The DecodedData built from the three strings and the loop's fields;
\* "assigned" records which numeric fields the loop wrote.
DecodedData(transaction_hash, sender, recipient, f) ==
    [kind |-> "Some",
     assigned |-> f.assigned,
     data |-> [transaction_hash |-> transaction_hash,
               sender |-> sender,
               recipient |-> recipient,
               amount0 |-> f.amount0,
               amount1 |-> f.amount1,
               sqrtPriceX96 |-> f.sqrtPriceX96,
               liquidity |-> f.liquidity,
               tick |-> f.tick]]

Panic(where) == [kind |-> "Panic", at |-> where]

\* log_processing.rs parse_decoded_log
parse_decoded_log(decoded, lg, checks) ==
    IF Len(lg.topics) < 2 THEN Panic("topics[1]")
    ELSE IF Len(lg.topics) < 3 THEN Panic("topics[2]")
    ELSE IF lg.transaction_hash = None THEN Panic("transaction_hash.unwrap()")
    ELSE LET f == for_params(decoded.params, 1, ZeroFields, checks)
         IN  IF f.panicked THEN Panic("negate with overflow")
             ELSE DecodedData(to_hex(lg.transaction_hash.hash),
                              to_hex(SubSeq(lg.topics[2], 13, 32)),
                              to_hex(SubSeq(lg.topics[3], 13, 32)),
                              f)

\* main.rs parse_decoded_log: the same loop, the strings from to_string()
main_parse_decoded_log(decoded, lg, checks) ==
    IF Len(lg.topics) < 2 THEN Panic("topics[1]")
    ELSE IF Len(lg.topics) < 3 THEN Panic("topics[2]")
    ELSE IF lg.transaction_hash = None THEN Panic("transaction_hash.unwrap()")
    ELSE LET f == for_params(decoded.params, 1, ZeroFields, checks)
         IN  IF f.panicked THEN Panic("negate with overflow")
             ELSE DecodedData(h256_to_string(lg.transaction_hash.hash),
                              h256_to_string(lg.topics[2]),
                              h256_to_string(lg.topics[3]),
                              f)

(***************************************************************************)
(* process_log                                                             *)
(***************************************************************************)
\* The entries the loop over the table stops at: named "Swap", key equal to
\* topic 0.  Keys are unique, so there is at most one.
Matching(lg, map) == {e \in map : e.name = "Swap" /\ SigHash(e) = lg.topics[1]}

Ok(x) == [kind |-> "Ok", data |-> x]

\* log_processing.rs process_log
process_log(lg, map, checks) ==
    IF Len(lg.topics) = 0 THEN Panic("topics[0]")
    ELSE IF Matching(lg, map) = {} THEN Ok(None)
    ELSE LET event == CHOOSE e \in Matching(lg, map) : TRUE
             parsed == parse_log(event, [topics |-> lg.topics, data |-> lg.data])
         IN  IF parsed.kind # "Ok" THEN Ok(None)
             ELSE LET decoded_data == parse_decoded_log(parsed, lg, checks)
                  IN  IF decoded_data.kind = "Panic" THEN decoded_data
                      ELSE Ok(decoded_data)

\* main.rs process_log: the table is rebuilt from the ABI on every call
main_process_log(lg, abi, checks) ==
    IF Len(lg.topics) = 0 THEN Panic("topics[0]")
    ELSE IF Matching(lg, abi) = {} THEN Ok(None)
    ELSE LET event == CHOOSE e \in Matching(lg, abi) : TRUE
             parsed == parse_log(event, [topics |-> lg.topics, data |-> lg.data])
         IN  IF parsed.kind # "Ok" THEN Ok(None)
             ELSE LET decoded_data == main_parse_decoded_log(parsed, lg, checks)
                  IN  IF decoded_data.kind = "Panic" THEN decoded_data
                      ELSE Ok(decoded_data)

(***************************************************************************)
(* Raw log entries                                                         *)
(***************************************************************************)
Some(h) == [kind |-> "Some", hash |-> h]

\* A topic whose leading 12 bytes are not zero
DirtyTopic == [i \in 1..32 |-> (7 * i) % 256]

\* A payload of boundary words: i128::MIN, -1, u128::MAX, 0, -1
BoundaryData ==
    << SignExtend(I128Min), U256Max, U256From(Fill(U128Limbs, LimbMax)),
       Fill(U256Limbs, 0), U256Max >>

MaxTopics == 4

Topic0s == {SigHash(e) : e \in Schemas} \cup {UnknownSigTopic}

TopicTails == { <<TestSenderTopic, TestRecipientTopic, TestSenderTopic>>,
                <<DirtyTopic, TestSenderTopic, DirtyTopic>> }

TopicLists ==
    {<<>>} \cup { <<h>> \o SubSeq(t, 1, k) :
                    h \in Topic0s, t \in TopicTails, k \in 0..(MaxTopics - 1) }

Datas == { SubSeq(TestData, 1, k) : k \in 0..Len(TestData) } \cup {BoundaryData}

Logs ==
    { [topics |-> ts, data |-> d, transaction_hash |-> h] :
        ts \in TopicLists, d \in Datas, h \in {None, Some(TestTransactionHash)} }

TestLog ==
    [topics |-> <<TestSigTopic, TestSenderTopic, TestRecipientTopic>>,
     data |-> TestData, transaction_hash |-> Some(TestTransactionHash)]

NumIdle ==
    /\ v = I128Max
    /\ value = SignExtend(I128Max)
    /\ converted = [kind |-> "idle"]

InitDec ==
    /\ event_map \in SUBSET Schemas
    /\ log \in Logs
    /\ overflow_checks \in BOOLEAN
    /\ result = Pending
    /\ NumIdle
    /\ LoopIdle
    /\ StoreIdle

\* process_log of log_processing.rs on the log
ProcessLog ==
    /\ result = Pending
    /\ log # None
    /\ result' = [by |-> "log_processing",
                  out |-> process_log(log, event_map, overflow_checks)]
    /\ UNCHANGED <<event_map, log, numVars, loopVars, storeVars>>

\* process_log of main.rs on the log
MainProcessLog ==
    /\ result = Pending
    /\ log # None
    /\ result' = [by |-> "main",
                  out |-> main_process_log(log, event_map, overflow_checks)]
    /\ UNCHANGED <<event_map, log, numVars, loopVars, storeVars>>

NextDec == ProcessLog \/ MainProcessLog

SpecDec == InitDec /\ [][NextDec]_vars

Done == result # Pending

Returned == Done /\ result.out.kind = "Ok"

ReturnedRecord == Returned /\ result.out.data # None

\* The decoder reproduces the values asserted by tests::test_process_log
TestLogDecodes ==
    (log = TestLog /\ SwapV3 \in event_map /\ Done /\ result.by = "log_processing") =>
        /\ ReturnedRecord
        /\ result.out.data.data.amount0 = <<57991, 37578, 13, 0, 0, 0, 0, 0>>
        /\ result.out.data.data.amount1 =
               <<13471, 8292, 1251, 65133, 65533, 65535, 65535, 65535>>
        /\ result.out.data.data.sqrtPriceX96 =
               <<46322, 5266, 31658, 50842, 54863, 51322, 25200, 0>>
        /\ result.out.data.data.liquidity = <<10073, 28195, 39296, 31861, 1, 0, 0, 0>>
        /\ result.out.data.data.tick = <<6094, 3>>
        /\ result.out.data.data.sender =
               <<"0", "x", "d", "7", "f", "3", "f", "b", "e", "8", "c", "7", "2", "a",
                 "9", "6", "1", "a", "5", "5", "1", "5", "2", "0", "3", "e", "a", "d",
                 "a", "5", "9", "7", "5", "0", "4", "3", "7", "f", "a", "7", "6", "2">>

(***************************************************************************)
(* Properties of the decoder                                               *)
(***************************************************************************)
Err(e) == [kind |-> "Err", error |-> e]

\* The log's topic 0 is a key of the table whose entry is named "Swap"
Matched == log # None /\ Len(log.topics) > 0 /\ Matching(log, event_map) # {}

MatchedEvent == CHOOSE e \in Matching(log, event_map) : TRUE

\* Structurally too short: fewer than 3 topics, or fewer data words than
\* the matched event has non-indexed parameters
TooShort ==
    /\ log # None
    /\ \/ Len(log.topics) < 3
       \/ /\ Matched
          /\ Len(log.data) < Len(indexed_params(MatchedEvent, FALSE))

\* C2: process_log on a structurally too short log returns the
\* MalformedLog error: no record, no plain "no match", no abort.
C2_MalformedLog ==
    (Done /\ result.by = "log_processing" /\ TooShort) =>
        result.out = Err("MalformedLog")

\* A matched log that ethabi decodes and that has its three topics
Decodable ==
    /\ Matched
    /\ Len(log.topics) >= 3
    /\ parse_log(MatchedEvent, [topics |-> log.topics, data |-> log.data]).kind = "Ok"

\* C3: a matched Swap log without transaction hash makes process_log return
\* the MissingTransactionHash error value; it neither yields a record nor
\* aborts.
C3_MissingTransactionHash ==
    (Done /\ Decodable /\ log.transaction_hash = None) =>
        result.out = Err("MissingTransactionHash")

NumericFields == {"amount0", "amount1", "sqrtPriceX96", "liquidity", "tick"}

\* C7: process_log returns a record only for a log whose topic 0 is a key
\* of the table with event name "Swap", every numeric field of that record
\* was written from a decoded parameter, and a log that does not match
\* gets no record.
C7_MatchOrNothing ==
    ReturnedRecord =>
        /\ Matched
        /\ result.out.data.assigned = NumericFields

\* str is "0x" followed by the two lowercase hex digits of every byte
IsHexOf(str, bytes) ==
    /\ Len(str) = 2 + 2 * Len(bytes)
    /\ str[1] = "0"
    /\ str[2] = "x"
    /\ \A i \in 1..Len(bytes) :
          /\ str[2 * i + 1] = HexDigits[(bytes[i] \div 16) + 1]
          /\ str[2 * i + 2] = HexDigits[(bytes[i] % 16) + 1]

\* C10: in both decoders the record's sender and recipient are the trailing
\* 20 bytes of topics[1] and topics[2] and its transaction hash the 32
\* bytes of the log's hash, each as a full 0x-prefixed lowercase hex string.
C10_Extraction ==
    ReturnedRecord =>
        /\ IsHexOf(result.out.data.data.sender, SubSeq(log.topics[2], 13, 32))
        /\ IsHexOf(result.out.data.data.recipient, SubSeq(log.topics[3], 13, 32))
        /\ IsHexOf(result.out.data.data.transaction_hash, log.transaction_hash.hash)

\* The same for the decoder of log_processing.rs alone
ExtractionLogProcessing ==
    (ReturnedRecord /\ result.by = "log_processing") =>
        /\ IsHexOf(result.out.data.data.sender, SubSeq(log.topics[2], 13, 32))
        /\ IsHexOf(result.out.data.data.recipient, SubSeq(log.topics[3], 13, 32))
        /\ IsHexOf(result.out.data.data.transaction_hash, log.transaction_hash.hash)

\* With the V3 Swap event every numeric field is written
SwapV3Populated ==
    (ReturnedRecord /\ MatchedEvent = SwapV3) =>
        result.out.data.assigned = NumericFields

(***************************************************************************)
(* Record store: store_decoded_data                                        *)
(*                                                                         *)
(* A file's content is a sequence of pieces: a newline, the JSON object    *)
(* serde_json::to_string makes of a record (it holds no newline), or a     *)
(* proper prefix of such an object left by a write that failed midway.     *)
(***************************************************************************)
NL == [t |-> "nl", r |-> 0]
Json(r) == [t |-> "json", r |-> r]
Part(r) == [t |-> "part", r |-> r]

MaxCalls == 3

\* Writing pieces at a position of a file opened without O_APPEND
WriteAt(content, pos, pieces) ==
    SubSeq(content, 1, pos - 1) \o pieces
        \o SubSeq(content, pos + Len(pieces), Len(content))

Returns(p, status) ==
    /\ pc' = [pc EXCEPT ![p] = "idle"]
    /\ ret' = [ret EXCEPT ![p] = [status |-> status,
                                  shard |-> call[p].shard,
                                  data |-> call[p].data,
                                  before |-> call[p].before]]
    /\ stored' = IF status = "Ok"
                 THEN Append(stored, [shard |-> call[p].shard, data |-> call[p].data])
                 ELSE stored

\* Lines 22-47: root_dir(), the data directory, the file name from the
\* address and the day, and the serialized record.  dir_ok is whether
\* create_dir_all succeeds when the directory is missing.
StoreBegin(p, address, dir_ok) ==
    /\ p \in callers
    /\ pc[p] = "idle"
    /\ ncalls < MaxCalls
    /\ ncalls' = ncalls + 1
    /\ LET c == [shard |-> <<address, today>>, data |-> ncalls + 1, before |-> files]
           failed == [status |-> "Err", shard |-> c.shard, data |-> c.data,
                      before |-> files]
       IN  IF ~root_found
           THEN /\ ret' = [ret EXCEPT ![p] = failed]
                /\ UNCHANGED <<pc, call, data_dir>>
           ELSE IF ~data_dir /\ ~dir_ok
           THEN /\ ret' = [ret EXCEPT ![p] = failed]
                /\ UNCHANGED <<pc, call, data_dir>>
           ELSE /\ data_dir' = TRUE
                /\ call' = [call EXCEPT ![p] = c]
                /\ pc' = [pc EXCEPT ![p] = "exists"]
                /\ UNCHANGED ret
    /\ UNCHANGED <<root_found, today, files, callers, stored>>
    /\ UNCHANGED <<numVars, decVars, loopVars>>

\* Line 54: Path::new(&filename).exists()
StoreExists(p) ==
    /\ pc[p] = "exists"
    /\ pc' = [pc EXCEPT ![p] = IF files[call[p].shard].exists THEN "open" ELSE "create"]
    /\ UNCHANGED <<root_found, data_dir, today, files, callers, call, ret, stored, ncalls>>
    /\ UNCHANGED <<numVars, decVars, loopVars>>

\* Line 58, first half of std::fs::write: File::create makes the file or
\* truncates it, and leaves the handle at offset 0
StoreCreate(p, ok) ==
    /\ pc[p] = "create"
    /\ IF ok
       THEN /\ files' = [files EXCEPT ![call[p].shard] = [exists |-> TRUE, content |-> <<>>]]
            /\ pc' = [pc EXCEPT ![p] = "write"]
            /\ UNCHANGED <<ret, stored>>
       ELSE /\ Returns(p, "Err")
            /\ UNCHANGED files
    /\ UNCHANGED <<root_found, data_dir, today, callers, call, ncalls>>
    /\ UNCHANGED <<numVars, decVars, loopVars>>

\* Line 58, second half of std::fs::write: write_all(json) at offset 0.
\* The write completes, fails before any byte, or fails after some bytes.
StoreCreateWrite(p, outcome) ==
    /\ pc[p] = "write"
    /\ LET f == files[call[p].shard]
           put(piece) == [files EXCEPT ![call[p].shard] =
                             [exists |-> TRUE, content |-> WriteAt(f.content, 1, <<piece>>)]]
       IN  CASE outcome = "ok" -> files' = put(Json(call[p].data)) /\ Returns(p, "Ok")
             [] outcome = "partial" -> files' = put(Part(call[p].data)) /\ Returns(p, "Err")
             [] outcome = "fail" -> UNCHANGED files /\ Returns(p, "Err")
    /\ UNCHANGED <<root_found, data_dir, today, callers, call, ncalls>>
    /\ UNCHANGED <<numVars, decVars, loopVars>>

\* Line 55: OpenOptions::new().append(true).open(filename)
StoreOpen(p, ok) ==
    /\ pc[p] = "open"
    /\ IF ok /\ files[call[p].shard].exists
       THEN /\ pc' = [pc EXCEPT ![p] = "newline"]
            /\ UNCHANGED <<ret, stored>>
       ELSE Returns(p, "Err")
    /\ UNCHANGED <<root_found, data_dir, today, files, callers, call, ncalls>>
    /\ UNCHANGED <<numVars, decVars, loopVars>>

AppendPiece(p, piece) ==
    files' = [files EXCEPT ![call[p].shard] =
                 [exists |-> TRUE, content |-> Append(@.content, piece)]]

\* Line 56, writeln!(file, "\n{}", json): write_fmt on the unbuffered File
\* issues one write_all per piece of the format string.  First the "\n"
\* before the argument.
StoreWriteNewline(p, ok) ==
    /\ pc[p] = "newline"
    /\ IF ok
       THEN /\ AppendPiece(p, NL)
            /\ pc' = [pc EXCEPT ![p] = "json"]
            /\ UNCHANGED <<ret, stored>>
       ELSE /\ Returns(p, "Err")
            /\ UNCHANGED files
    /\ UNCHANGED <<root_found, data_dir, today, callers, call, ncalls>>
    /\ UNCHANGED <<numVars, decVars, loopVars>>

\* Line 56: then the argument, the serialized record
StoreWriteJson(p, outcome) ==
    /\ pc[p] = "json"
    /\ CASE outcome = "ok" -> /\ AppendPiece(p, Json(call[p].data))
                              /\ pc' = [pc EXCEPT ![p] = "terminator"]
                              /\ UNCHANGED <<ret, stored>>
         [] outcome = "partial" -> AppendPiece(p, Part(call[p].data)) /\ Returns(p, "Err")
         [] outcome = "fail" -> UNCHANGED files /\ Returns(p, "Err")
    /\ UNCHANGED <<root_found, data_dir, today, callers, call, ncalls>>
    /\ UNCHANGED <<numVars, decVars, loopVars>>

\* Line 56: then the "\n" that writeln! adds after the format string
StoreWriteTerminator(p, ok) ==
    /\ pc[p] = "terminator"
    /\ IF ok
       THEN AppendPiece(p, NL) /\ Returns(p, "Ok")
       ELSE UNCHANGED files /\ Returns(p, "Err")
    /\ UNCHANGED <<root_found, data_dir, today, callers, call, ncalls>>
    /\ UNCHANGED <<numVars, decVars, loopVars>>

\* Utc::now() passes midnight
Midnight ==
    /\ callers # {}
    /\ today < MaxDay
    /\ today' = today + 1
    /\ UNCHANGED <<root_found, data_dir, files, callers, pc, call, ret, stored, ncalls>>
    /\ UNCHANGED <<numVars, decVars, loopVars>>

Outcomes == {"ok", "partial", "fail"}

NextStore ==
    \/ \E p \in Procs, a \in Addresses, ok \in BOOLEAN : StoreBegin(p, a, ok)
    \/ \E p \in Procs : StoreExists(p)
    \/ \E p \in Procs, ok \in BOOLEAN : StoreCreate(p, ok)
    \/ \E p \in Procs, o \in Outcomes : StoreCreateWrite(p, o)
    \/ \E p \in Procs, ok \in BOOLEAN : StoreOpen(p, ok)
    \/ \E p \in Procs, ok \in BOOLEAN : StoreWriteNewline(p, ok)
    \/ \E p \in Procs, o \in Outcomes : StoreWriteJson(p, o)
    \/ \E p \in Procs, ok \in BOOLEAN : StoreWriteTerminator(p, ok)
    \/ Midnight

InitStoreEnv ==
    /\ root_found \in BOOLEAN
    /\ data_dir \in BOOLEAN
    /\ today = 1
    /\ files = [s \in Shards |-> Absent]
    /\ pc = [p \in Procs |-> "idle"]
    /\ call = [p \in Procs |-> NoCall]
    /\ ret = [p \in Procs |-> NoRet]
    /\ stored = <<>>
    /\ ncalls = 0
    /\ NumIdle
    /\ overflow_checks = FALSE
    /\ DecIdle
    /\ LoopIdle

\* One caller: the calls follow one another
InitStore == InitStoreEnv /\ callers = {1}

\* Two callers: their calls interleave
InitStoreConc == InitStoreEnv /\ callers = Procs

SpecStore == InitStore /\ [][NextStore]_vars

SpecStoreConc == InitStoreConc /\ [][NextStore]_vars

(***************************************************************************)
(* Properties of the record store                                          *)
(***************************************************************************)
AllIdle == \A p \in Procs : pc[p] = "idle"

\* Every call made so far has returned Ok
AllSucceeded == AllIdle /\ Len(stored) = ncalls

\* The records of the successful calls on a shard, in call order
StoredIn(s) ==
    LET mine == SelectSeq(stored, LAMBDA c : c.shard = s)
    IN  [i \in 1..Len(mine) |-> mine[i].data]

\* The records whose complete objects a content holds, in file order
ObjectsOf(content) ==
    LET objs == SelectSeq(content, LAMBDA x : x.t = "json")
    IN  [i \in 1..Len(objs) |-> objs[i].r]

NoFragment(content) == \A i \in 1..Len(content) : content[i].t # "part"

\* The first object opens the file; every later object has exactly one
\* newline in front of it
OneNewlineBefore(content) ==
    \A i \in 1..Len(content) :
        content[i].t = "json" =>
            IF i = 1 THEN TRUE
            ELSE /\ content[i - 1] = NL
                 /\ i > 2
                 /\ content[i - 2] # NL

NoLeadingNewline(content) == content = <<>> \/ content[1] # NL

\* C4: after n >= 1 store calls that all succeeded, every shard holds its
\* records in call order, the first without leading newline and every
\* later one preceded by exactly one newline.
C4_AppendFormat ==
    (AllSucceeded /\ ncalls >= 1) =>
        \A s \in Shards :
            /\ ObjectsOf(files[s].content) = StoredIn(s)
            /\ NoFragment(files[s].content)
            /\ NoLeadingNewline(files[s].content)
            /\ OneNewlineBefore(files[s].content)

\* The same for at most two records per shard
AppendFormatTwo ==
    (AllSucceeded /\ ncalls >= 1) =>
        \A s \in Shards :
            Len(StoredIn(s)) <= 2 =>
                /\ ObjectsOf(files[s].content) = StoredIn(s)
                /\ NoFragment(files[s].content)
                /\ NoLeadingNewline(files[s].content)
                /\ OneNewlineBefore(files[s].content)

\* Every object is alone on its line
OwnLines(content) ==
    \A i \in 1..Len(content) :
        content[i].t = "json" =>
            /\ i > 1 => content[i - 1] = NL
            /\ i < Len(content) => content[i + 1] = NL

\* Both callers made one call, on the same shard, and both returned Ok
BothStored ==
    /\ AllIdle
    /\ ncalls = 2
    /\ \A p \in Procs : ret[p].status = "Ok"
    /\ ret[1].shard = ret[2].shard

\* C5: however two store calls on one shard interleave, the file ends up
\* with both records, each a complete object on its own line.
C5_ConcurrentAppend ==
    BothStored =>
        LET content == files[ret[1].shard].content
        IN  /\ \A p \in Procs : \E i \in 1..Len(content) : content[i] = Json(ret[p].data)
            /\ NoFragment(content)
            /\ OwnLines(content)

\* C8: when store_decoded_data returns an error, the content of the shard
\* is what it was before the call.
C8_AllOrNothing ==
    \A p \in Procs :
        (pc[p] = "idle" /\ ret[p].status = "Err") =>
            files[ret[p].shard].content = ret[p].before[ret[p].shard].content

(***************************************************************************)
(* Stream loop: main.rs fetch_eth_logs                                     *)
(***************************************************************************)
MaxLogs == 3

\* The ABI main.rs loads: the pool's events
PoolAbi == {SwapV3, Mint}

\* What the transport may deliver: the test log, the same log without
\* transaction hash, without its recipient topic, without any topic, with
\* an unrelated topic 0, and a Mint log
StreamLogs ==
    { TestLog,
      [TestLog EXCEPT !.transaction_hash = None],
      [TestLog EXCEPT !.topics = <<TestSigTopic, TestSenderTopic>>],
      [TestLog EXCEPT !.topics = <<>>],
      [TestLog EXCEPT !.topics = <<UnknownSigTopic>>, !.data = <<>>],
      [TestLog EXCEPT !.topics = <<SigHash(Mint), TestSenderTopic>>,
                      !.data = SubSeq(TestData, 1, 2)] }

RECURSIVE SeqsUpTo(_, _)
SeqsUpTo(S, n) ==
    IF n = 0 THEN {<<>>}
    ELSE LET shorter == SeqsUpTo(S, n - 1)
         IN  shorter \cup {Append(q, x) : q \in {r \in shorter : Len(r) = n - 1}, x \in S}

\* After provider.watch(&filter): the loop is about to poll the stream
InitLoop ==
    /\ logs_stream \in SeqsUpTo(StreamLogs, MaxLogs)
    /\ loop_pc = "watching"
    /\ stderr = <<>>
    /\ handled = <<>>
    /\ event_map = PoolAbi
    /\ log = None
    /\ result = Pending
    /\ overflow_checks \in BOOLEAN
    /\ NumIdle
    /\ StoreIdle

\* One iteration of "while let Some(log) = logs_stream.next().await":
\* process_log on the log; an Err is printed with eprintln!, an Ok value is
\* dropped, a panic unwinds out of fetch_eth_logs and main.
FetchLog ==
    /\ loop_pc = "watching"
    /\ logs_stream # <<>>
    /\ LET lg == Head(logs_stream)
           out == main_process_log(lg, event_map, overflow_checks)
       IN  /\ logs_stream' = Tail(logs_stream)
           /\ handled' = Append(handled, [log |-> lg, out |-> out])
           /\ loop_pc' = IF out.kind = "Panic" THEN "panicked" ELSE "watching"
           /\ stderr' = IF out.kind = "Err"
                        THEN Append(stderr, <<"Error processing log: ", out.error>>)
                        ELSE stderr
    /\ UNCHANGED <<numVars, decVars, storeVars>>

\* The stream ends: the loop is left and fetch_eth_logs returns Ok(())
FetchReturn ==
    /\ loop_pc = "watching"
    /\ logs_stream = <<>>
    /\ loop_pc' = "returned"
    /\ UNCHANGED <<logs_stream, stderr, handled>>
    /\ UNCHANGED <<numVars, decVars, storeVars>>

NextLoop == FetchLog \/ FetchReturn

SpecLoop == InitLoop /\ [][NextLoop]_vars

(***************************************************************************)
(* Properties of the stream loop                                           *)
(***************************************************************************)
\* The decoding of a consumed log failed: it aborted, returned an error, or
\* the log matched the Swap entry and yet gave no record
DecodeFailed(h) ==
    \/ h.out.kind \in {"Panic", "Err"}
    \/ /\ Len(h.log.topics) > 0
       /\ Matching(h.log, event_map) # {}
       /\ h.out = Ok(None)

\* C6: a log whose decoding fails never halts fetch_eth_logs: the loop is
\* not left by an abort, and every failure so far has its diagnostic line.
C6_FailureIsolation ==
    /\ loop_pc # "panicked"
    /\ Len(stderr) = Cardinality({i \in 1..Len(handled) : DecodeFailed(handled[i])})

\* The records process_log returned for the consumed logs, in order
DecodedSoFar ==
    LET oks == SelectSeq(handled, LAMBDA h : h.out.kind = "Ok" /\ h.out.data # None)
    IN  [i \in 1..Len(oks) |-> oks[i].out.data.data]

\* C9: every record process_log returned has been handed to the store
\* before the next log is taken: the shard of the watched address holds
\* exactly the records decoded so far, in delivery order.
C9_ForwardedInOrder ==
    ObjectsOf(files[<<Address, today>>].content) = DecodedSoFar

(***************************************************************************)
(* The empty signature table                                               *)
(***************************************************************************)
\* C11: against an empty table process_log reports no match, Ok(None), for
\* every raw log entry, whatever its topics, data and transaction hash.
C11_EmptyTable ==
    (Done /\ event_map = {}) => result.out = Ok(None)

\* The same for the logs that have a topic 0
EmptyTableWithTopic ==
    (Done /\ event_map = {} /\ Len(log.topics) > 0) => result.out = Ok(None)

(***************************************************************************)
(* Tick narrowing: the "tick" arm of parse_decoded_log                     *)
(***************************************************************************)
I32Limbs == 32 \div 16

\* The tick of tests::test_process_log, 202702, as its two limbs
TestTick == <<6094, 3>>

TickLowLimbs == {0, 1, 6094, LimbTop - 1, LimbTop, LimbTop + 1, LimbMax - 1, LimbMax}

\* 32-bit patterns around the boundaries: 0, 1, -1, i32::MAX, i32::MIN, the
\* bounds of int24, the test's tick, ...
I32Inputs == { <<l, t>> : l \in TickLowLimbs, t \in TopLimbs \cup {3, 127, 128, LimbMax - 127} }

\* A Token::Int whose word is the int256 encoding of the i32 v
InitTick ==
    /\ v \in I32Inputs
    /\ value = SignExtend(v)
    /\ overflow_checks \in BOOLEAN
    /\ converted = Pending
    /\ DecIdle
    /\ LoopIdle
    /\ StoreIdle

\* One run of the "tick" arm on Token::Int(value)
ConvertTick ==
    /\ converted = Pending
    /\ converted' = [kind |-> "ok", bits |-> as_i32(low_u64(value)), overflowed |-> FALSE]
    /\ UNCHANGED <<v, value, overflow_checks>>
    /\ UNCHANGED <<decVars, loopVars, storeVars>>

NextTick == ConvertTick

SpecTick == InitTick /\ [][NextTick]_vars

\* C12: for every tick t of the signed 32-bit range, the low 64 bits of the
\* sign-extended 256-bit word of t, cast to i32, are exactly t.
C12_TickNarrowing ==
    converted # Pending =>
        /\ converted.kind = "ok"
        /\ Len(converted.bits) = I32Limbs
        /\ converted.bits = v

\* A negative tick whose low 16 bits alone would read as a positive number
\* has been narrowed
C12_NegativeTickNarrowed ==
    /\ converted # Pending
    /\ Len(v) = I32Limbs
    /\ v[I32Limbs] >= LimbTop
    /\ v[1] < LimbTop
    /\ value[U256Limbs] = LimbMax
    /\ converted.bits = v

====
